---- MODULE Spec2Model ----
(***************************************************************************)
(* Artifact AI: the similarity engine and site working set of the App      *)
(* component (src/mockData.ts), the identifier derivation of the report    *)
(* ingestion (src/components/Dashboard.tsx) and the force-directed graph   *)
(* view (src/components/NetworkGraph.tsx).                                 *)
(*                                                                         *)
(* Strings are sequences of character codes, so that toLowerCase, trim,    *)
(* the regular-expression replacements and the rolling hash are computed   *)
(* as the code computes them.  A JavaScript Set is an insertion-ordered    *)
(* sequence without duplicates.  A score is the pair <<n, d>> standing for *)
(* the quotient n / d (d > 0); quotients are compared by cross             *)
(* multiplication.                                                         *)
(***************************************************************************)
EXTENDS Integers, Sequences, FiniteSets, TLC

\* ------------------------------------------------------------------------
\* Bounds of the model
\* ------------------------------------------------------------------------
MaxAdds == 2

MaxUpdates == 1

\* the user opens the details of one of the first MaxSelect listed sites
MaxSelect == 1

MaxArtifacts == 4

\* the similarity engine on its own: artifact lists of at most MaxPairLen
MaxPairLen == 3

\* the chronology mapping on its own: label lists of at most MaxWords words
MaxWords == 3

\* the id derivation on its own: at most MaxDerive derivations
MaxDerive == 3

\* words in an input of stringToHash
MaxHashWords == 2

\* clicks on the explanation buttons
MaxClicks == 3

\* artifact edits of the displayed site
MaxEdits == 1

\* runs of processReport
MaxRuns == 3

\* fingers on the graph at a time
MaxTouches == 2

\* length of the site list an update is applied to
MaxListLen == 3

\* the graph view: nodes, links, pointers and the grid of positions
MaxNodes == 2

MaxLinks == 1

MaxPointers == 1

MaxCoord == 1

MaxVel == 1

\* in one tick alpha covers the fraction (DecayDen - 1) / DecayDen of its
\* distance to the target (d3's default covers about 1 / 44 of it)
DecayDen == 10

\* ------------------------------------------------------------------------
\* String literals (character codes)
\* ------------------------------------------------------------------------
Terracotta == <<84, 101, 114, 114, 97, 99, 111, 116, 116, 97>>

Iron == <<73, 114, 111, 110>>

IRON == <<73, 82, 79, 78>>

Gold == <<71, 111, 108, 100>>

Glass == <<71, 108, 97, 115, 115>>

Carnelian == <<67, 97, 114, 110, 101, 108, 105, 97, 110>>

Silver == <<83, 105, 108, 118, 101, 114>>

Organic == <<79, 114, 103, 97, 110, 105, 99>>

Agate == <<65, 103, 97, 116, 101>>

\* "Keezhadi II "
KeezhadiII == <<75, 101, 101, 122, 104, 97, 100, 105, 32, 73, 73, 32>>

\* "keezhadi-ii"
KeezhadiDashed == <<107, 101, 101, 122, 104, 97, 100, 105, 45, 105, 105>>

Sivaganga == <<83, 105, 118, 97, 103, 97, 110, 103, 97>>

\* Readings of Date.now() (decimal digits), in increasing order:
\* 1730000721006, 1730071000710 and 1730071002000
Time1 == <<49, 55, 51, 48, 48, 48, 48, 55, 50, 49, 48, 48, 54>>

Time2 == <<49, 55, 51, 48, 48, 55, 49, 48, 48, 48, 55, 49, 48>>

Time3 == <<49, 55, 51, 48, 48, 55, 49, 48, 48, 50, 48, 48, 48>>

Times == <<Time1, Time2, Time3>>

Art(m) == [material |-> m]

\* ------------------------------------------------------------------------
\* TN_SITES (id and artifact materials of each record)
\* ------------------------------------------------------------------------
TN_SITES ==
  << [id |-> <<97, 100, 105, 99, 104, 97, 110, 97, 108, 108, 117, 114>>,
      artifacts |-> <<Art(Terracotta), Art(Iron), Art(Gold)>>],
     [id |-> <<107, 101, 101, 122, 104, 97, 100, 105>>,
      artifacts |-> <<Art(Terracotta), Art(Glass), Art(Terracotta)>>],
     [id |-> <<107, 111, 100, 117, 109, 97, 110, 97, 108>>,
      artifacts |-> <<Art(Carnelian), Art(Iron), Art(Silver)>>],
     [id |-> <<97, 114, 105, 107, 97, 109, 101, 100, 117>>,
      artifacts |-> <<Art(Terracotta), Art(Terracotta), Art(Terracotta)>>],
     [id |-> <<112, 111, 114, 117, 110, 116, 104, 97, 108>>,
      artifacts |-> <<Art(Organic), Art(Agate), Art(Terracotta)>>] >>

\* ------------------------------------------------------------------------
\* Strings
\* ------------------------------------------------------------------------
toLowerCase(str) ==
  [i \in 1..Len(str) |-> IF str[i] \in 65..90 THEN str[i] + 32 ELSE str[i]]

IsSpace(c) == c \in {9, 10, 11, 12, 13, 32}

RECURSIVE trimStart(_)
trimStart(str) ==
  IF str # <<>> /\ IsSpace(Head(str)) THEN trimStart(Tail(str)) ELSE str

RECURSIVE trimEnd(_)
trimEnd(str) ==
  IF str # <<>> /\ IsSpace(str[Len(str)])
  THEN trimEnd(SubSeq(str, 1, Len(str) - 1))
  ELSE str

trim(str) == trimEnd(trimStart(str))

\* [a-z0-9]
IsAlnumLower(c) == c \in 97..122 \/ c \in 48..57

\* str.replace(/[^a-z0-9]+/g, '-'): every maximal run of other characters
\* becomes one '-'
RECURSIVE replaceRuns(_, _)
replaceRuns(str, inRun) ==
  IF str = <<>> THEN <<>>
  ELSE IF IsAlnumLower(Head(str))
       THEN <<Head(str)>> \o replaceRuns(Tail(str), FALSE)
       ELSE IF inRun THEN replaceRuns(Tail(str), TRUE)
            ELSE <<45>> \o replaceRuns(Tail(str), TRUE)

normalize(str) == replaceRuns(toLowerCase(trim(str)), FALSE)

\* ------------------------------------------------------------------------
\* JavaScript Set
\* ------------------------------------------------------------------------
has(set, x) == \E i \in 1..Len(set) : set[i] = x

RECURSIVE NewSet(_)
NewSet(seq) ==
  IF seq = <<>> THEN <<>>
  ELSE LET rest == NewSet(SubSeq(seq, 1, Len(seq) - 1))
           x == seq[Len(seq)]
       IN IF has(rest, x) THEN rest ELSE Append(rest, x)


\* materialsOf without the lower-casing
materialsOf_CaseSensitive(a) ==
  NewSet([k \in 1..Len(a.artifacts) |-> a.artifacts[k].material])

\* new Set(a.artifacts.map(art => art.material.toLowerCase()))
materialsOf(a) ==
  NewSet([k \in 1..Len(a.artifacts) |-> toLowerCase(a.artifacts[k].material)])

\* ------------------------------------------------------------------------
\* Similarity engine
\* ------------------------------------------------------------------------
\* calculateSim dividing by the size of the first site's set
calculateSim_OverFirst(a, b) ==
  LET materialsA == materialsOf(a)
      materialsB == materialsOf(b)
      intersection == NewSet(SelectSeq(materialsA, LAMBDA x : has(materialsB, x)))
  IN IF Len(materialsA) = 0 THEN <<0, 1>>
     ELSE <<Len(intersection), Len(materialsA)>>

\* calculateSim counting the first site's materials without deduplication
calculateSim_NoDedup(a, b) ==
  LET listA == [k \in 1..Len(a.artifacts) |-> toLowerCase(a.artifacts[k].material)]
      materialsB == materialsOf(b)
      intersection == SelectSeq(listA, LAMBDA x : has(materialsB, x))
      union == NewSet(listA \o materialsB)
  IN IF Len(union) = 0 THEN <<0, 1>> ELSE <<Len(intersection), Len(union)>>

calculateSim(a, b) ==
  LET materialsA == materialsOf(a)
      materialsB == materialsOf(b)
      intersection == NewSet(SelectSeq(materialsA, LAMBDA x : has(materialsB, x)))
      union == NewSet(materialsA \o materialsB)
  IN IF Len(union) = 0 THEN <<0, 1>> ELSE <<Len(intersection), Len(union)>>

\* the body of the similarity effect: one result per index pair i < j, in the
\* order of the two nested loops
RECURSIVE pairsFrom(_, _, _)
pairsFrom(list, i, j) ==
  IF i > Len(list) THEN <<>>
  ELSE IF j > Len(list) THEN pairsFrom(list, i + 1, i + 2)
       ELSE << [sourceId |-> list[i].id, targetId |-> list[j].id,
                score |-> calculateSim(list[i], list[j])] >>
            \o pairsFrom(list, i, j + 1)

\* the similarity effect with the inner loop starting at j = i + 2
computeResults_SkipNeighbour(list) == pairsFrom(list, 1, 3)

computeResults(list) == pairsFrom(list, 1, 2)

\* quotients
RatEq(p, q) == p[1] * q[2] = q[1] * p[2]

RatLess(p, q) == p[1] * q[2] < q[1] * p[2]

RatLeq(p, q) == p[1] * q[2] <= q[1] * p[2]

\* ------------------------------------------------------------------------
\* Identifier derivation (32-bit words are pairs <<high 16 bits, low 16 bits>>)
\* ------------------------------------------------------------------------
Half == 65536

\* hash << 5
Shl5(w) == << (w[1] * 32 + (w[2] * 32) \div Half) % Half, (w[2] * 32) % Half >>

\* (a - b) | 0
SubW(a, b) ==
  LET lo == a[2] - b[2]
      borrow == IF lo < 0 THEN 1 ELSE 0
  IN << (a[1] - b[1] - borrow + Half) % Half, (lo + Half) % Half >>

\* (w + c) | 0 for a character code c
AddW(w, c) ==
  LET lo == w[2] + c
  IN << (w[1] + lo \div Half) % Half, lo % Half >>

IsNegative(w) == w[1] >= 32768

\* the hash rendered without Math.abs
absW_NoAbs(w) == w

\* Math.abs of the signed value, as an unsigned magnitude (at most 2^31)
absW(w) == IF IsNegative(w) THEN SubW(<<0, 0>>, w) ELSE w

Digit36(d) == IF d < 10 THEN 48 + d ELSE 97 + (d - 10)

\* Number.prototype.toString(36) of a non-negative integer
RECURSIVE toString36(_)
toString36(w) ==
  LET q1 == w[1] \div 36
      t == (w[1] % 36) * Half + w[2]
      q == <<q1, t \div 36>>
      r == t % 36
  IN IF q = <<0, 0>> THEN <<Digit36(r)>>
     ELSE toString36(q) \o <<Digit36(r)>>

\* hash = ((hash << 5) - hash) + char; hash |= 0
hashStep(hash, char) == AddW(SubW(Shl5(hash), hash), char)

\* the loop over the characters (the test of next makes the evaluation of
\* each step precede the next iteration)
RECURSIVE hashLoop(_, _, _)
hashLoop(str, i, hash) ==
  IF i > Len(str) THEN hash
  ELSE LET next == hashStep(hash, str[i])
       IN IF next[1] \in 0..(Half - 1) THEN hashLoop(str, i + 1, next) ELSE next

stringToHash(str) == toString36(absW(hashLoop(str, 1, <<0, 0>>)))

\* siteId hashing the name and the district as extracted
siteId_RawName(siteName, siteDistrict, now) ==
  LET normalizedName == normalize(siteName)
      normalizedDistrict == normalize(siteDistrict)
      contentHash ==
        stringToHash(siteName \o <<45>> \o siteDistrict \o <<45>> \o now)
  IN normalizedName \o <<45>> \o normalizedDistrict \o <<45>> \o contentHash

siteId(siteName, siteDistrict, now) ==
  LET normalizedName == normalize(siteName)
      normalizedDistrict == normalize(siteDistrict)
      contentHash ==
        stringToHash(normalizedName \o <<45>> \o normalizedDistrict \o <<45>> \o now)
  IN normalizedName \o <<45>> \o normalizedDistrict \o <<45>> \o contentHash


\* ------------------------------------------------------------------------
\* Report ingestion: chronology mapping (processReport)
\* ------------------------------------------------------------------------
\* enum Chronology
MEGALITHIC == "Megalithic"

SANGAM == "Sangam Age"

EARLY_HISTORIC == "Early Historic"

MEDIEVAL == "Medieval"

UNKNOWN == "Unknown Period"

\* megalithic, megalith, ironage, urnburial, megalithicage, cist, dolmen, menhir
megalithicKeywords ==
  << <<109, 101, 103, 97, 108, 105, 116, 104, 105, 99>>,
     <<109, 101, 103, 97, 108, 105, 116, 104>>,
     <<105, 114, 111, 110, 97, 103, 101>>,
     <<117, 114, 110, 98, 117, 114, 105, 97, 108>>,
     <<109, 101, 103, 97, 108, 105, 116, 104, 105, 99, 97, 103, 101>>,
     <<99, 105, 115, 116>>,
     <<100, 111, 108, 109, 101, 110>>,
     <<109, 101, 110, 104, 105, 114>> >>

\* sangam, sangamage, sangamperiod, earlysangam, earlytamil, cheran, cholan, pandiyan, tamizh
sangamKeywords ==
  << <<115, 97, 110, 103, 97, 109>>,
     <<115, 97, 110, 103, 97, 109, 97, 103, 101>>,
     <<115, 97, 110, 103, 97, 109, 112, 101, 114, 105, 111, 100>>,
     <<101, 97, 114, 108, 121, 115, 97, 110, 103, 97, 109>>,
     <<101, 97, 114, 108, 121, 116, 97, 109, 105, 108>>,
     <<99, 104, 101, 114, 97, 110>>,
     <<99, 104, 111, 108, 97, 110>>,
     <<112, 97, 110, 100, 105, 121, 97, 110>>,
     <<116, 97, 109, 105, 122, 104>> >>

\* earlyhistoric, earlyhistorical, earlyhistoricperiod, historicperiod, earlydynastic, indoroman, buddhist, jain, maurya, satavahana, palaeography
earlyHistoricKeywords ==
  << <<101, 97, 114, 108, 121, 104, 105, 115, 116, 111, 114, 105, 99>>,
     <<101, 97, 114, 108, 121, 104, 105, 115, 116, 111, 114, 105, 99, 97, 108>>,
     <<101, 97, 114, 108, 121, 104, 105, 115, 116, 111, 114, 105, 99, 112, 101, 114, 105, 111, 100>>,
     <<104, 105, 115, 116, 111, 114, 105, 99, 112, 101, 114, 105, 111, 100>>,
     <<101, 97, 114, 108, 121, 100, 121, 110, 97, 115, 116, 105, 99>>,
     <<105, 110, 100, 111, 114, 111, 109, 97, 110>>,
     <<98, 117, 100, 100, 104, 105, 115, 116>>,
     <<106, 97, 105, 110>>,
     <<109, 97, 117, 114, 121, 97>>,
     <<115, 97, 116, 97, 118, 97, 104, 97, 110, 97>>,
     <<112, 97, 108, 97, 101, 111, 103, 114, 97, 112, 104, 121>> >>

\* medieval, medival, chola, pandya, pallava, middleages, laterhistoric, vijayanagara, nayaka, islamic, sultanate
medievalKeywords ==
  << <<109, 101, 100, 105, 101, 118, 97, 108>>,
     <<109, 101, 100, 105, 118, 97, 108>>,
     <<99, 104, 111, 108, 97>>,
     <<112, 97, 110, 100, 121, 97>>,
     <<112, 97, 108, 108, 97, 118, 97>>,
     <<109, 105, 100, 100, 108, 101, 97, 103, 101, 115>>,
     <<108, 97, 116, 101, 114, 104, 105, 115, 116, 111, 114, 105, 99>>,
     <<118, 105, 106, 97, 121, 97, 110, 97, 103, 97, 114, 97>>,
     <<110, 97, 121, 97, 107, 97>>,
     <<105, 115, 108, 97, 109, 105, 99>>,
     <<115, 117, 108, 116, 97, 110, 97, 116, 101>> >>

\* the groups in their order of priority
mappingGroups ==
  << [enum |-> MEGALITHIC, keywords |-> megalithicKeywords],
     [enum |-> SANGAM, keywords |-> sangamKeywords],
     [enum |-> EARLY_HISTORIC, keywords |-> earlyHistoricKeywords],
     [enum |-> MEDIEVAL, keywords |-> medievalKeywords] >>

\* raw.toLowerCase().replace(/[^a-z0-9]/g, '')
stripLabel(raw) == SelectSeq(toLowerCase(raw), IsAlnumLower)

\* text.includes(k)
includes(text, k) ==
  \E i \in 1..(Len(text) - Len(k) + 1) : SubSeq(text, i, i + Len(k) - 1) = k

\* group.keywords.some(k => text.includes(k))
groupMatches(group, text) ==
  \E n \in 1..Len(group.keywords) : includes(text, group.keywords[n])

\* the loop over the groups from the g-th on: the first match returns
RECURSIVE firstMatch(_, _, _)
firstMatch(groups, g, text) ==
  IF g > Len(groups) THEN UNKNOWN
  ELSE IF groupMatches(groups[g], text) THEN groups[g].enum
       ELSE firstMatch(groups, g + 1, text)

\* mapChronologyFuzzy going through the groups in the reverse order
mapChronologyFuzzy_LastWins(raw) ==
  LET reversed == [g \in 1..Len(mappingGroups) |->
                     mappingGroups[Len(mappingGroups) + 1 - g]]
  IN firstMatch(reversed, 1, stripLabel(raw))

mapChronologyFuzzy(raw) == firstMatch(mappingGroups, 1, stripLabel(raw))


\* ------------------------------------------------------------------------
\* State
\* ------------------------------------------------------------------------
VARIABLES
  sites,           \* App: the working set (useState(TN_SITES))
  similarityData,  \* App: the similarity results (useState([]))
  selectedSite,    \* App: <<>> (null) or <<site>>
  activeTab,       \* App: "dashboard" or "network"
  sitesDirty,      \* setSites was called since the last commit
  linksDirty,      \* setSimilarityData was called since the last commit
  simComputed,     \* the similarity effect has run at least once
  clock,           \* index into Times of the last reading of Date.now()
  nAdds,           \* number of sites added
  nUpdates,        \* number of site updates
  gSites,          \* NetworkGraph: props.sites (the ids) of the last render
  gLinks,          \* NetworkGraph: props.links of the last render
  mounted,         \* NetworkGraph is mounted
  hasSim,          \* an effect run built a graph whose elements are displayed
  live,            \* that effect run has not been cleaned up
  nodes,           \* the simulation's nodes: [id, pos, vel, pin]
  linkData,        \* the links handed to forceLink
  linkError,       \* forceLink found a link whose endpoint is no node
  alpha,           \* simulation.alpha(), in units of 1 / AlphaScale
  alphaTarget,     \* simulation.alphaTarget(), in units of 1 / AlphaScale
  running,         \* the simulation's timer is scheduled
  staleRunning,    \* the timer of a replaced simulation is still scheduled
  gestures,        \* active drag gestures: [ptr, node (index), stale]
  pairA, pairB,    \* similarity engine on its own: the two sites compared
  scoreAB, scoreBA, \* <<>> or <<calculateSim(a, b)>>, <<calculateSim(b, a)>>
  rawLabels,       \* report ingestion on its own: extracted.chronology
  mappedLabels,    \* mappedChronology
  siteChronology,  \* <<>> or <<newSite.chronology>>
  derivations,     \* the id derivations made so far: [name, district, now, id]
  hashInput,       \* stringToHash on its own: str
  hashOutput,      \* <<>> or <<[hash |-> the accumulator, text |-> the result]>>
  allSites,        \* site details on its own: the sites of App, as [id, rev]
  detailSite,      \* selectedSite of App: <<>> or <<[id, rev]>>
  shown,           \* the committed render of SiteDetails: <<>> (not mounted) or
                   \* <<[site, targets, insights, loading, error]>>
  similarityInsights, \* state of SiteDetails: target id -> <<>> or <<explanation>>
  loadingSimilarity,  \* <<>> (null) or <<target id>>
  errorSimilarity,    \* target id -> an error message is set
  requestInProgress,  \* the ref: the target ids marked true
  requests,        \* computeSimilarityExplanation calls awaiting their answer:
                   \* [site, target, dead]; dead: issued by an unmounted instance
  nClicks,         \* clicks on the explanation buttons so far
  nEdits,          \* artifact edits and ingestions so far
  isIngesting,     \* report ingestion on its own: state of Dashboard
  ingestionStep,   \* the step text ("" when cleared)
  error,           \* <<>> (null) or <<message>>
  runs,            \* the processReport runs in progress:
                   \* [run, at, newSite, dead]; dead: started by a Dashboard
                   \* that was unmounted since
  nRuns            \* runs started so far

appVars == <<sites, similarityData, selectedSite, activeTab, sitesDirty,
             linksDirty, simComputed, clock, nAdds, nUpdates>>

propVars == <<gSites, gLinks, mounted>>

simVars == <<hasSim, live, nodes, linkData, linkError, alpha, alphaTarget,
             running, staleRunning, gestures>>

pairVars == <<pairA, pairB, scoreAB, scoreBA>>

ingestVars == <<rawLabels, mappedLabels, siteChronology, derivations>>

hashVars == <<hashInput, hashOutput>>

detailVars == <<allSites, detailSite, shown, similarityInsights,
                loadingSimilarity, errorSimilarity, requestInProgress,
                requests, nClicks, nEdits>>

runVars == <<isIngesting, ingestionStep, error, runs, nRuns>>

moreVars == <<hashVars, detailVars, runVars>>

vars == <<appVars, propVars, simVars, pairVars, ingestVars, moreVars>>


\* ------------------------------------------------------------------------
\* Inputs
\* ------------------------------------------------------------------------
\* names and districts a report can yield
SiteNames == {KeezhadiII}

Districts == {Sivaganga}

\* artifact lists a report can yield
ReportArtifacts == { <<>>, <<Art(Terracotta), Art(Glass)>> }

\* materials typed into the add-artifact form
NewMaterials == {IRON}

Tabs == {"dashboard", "network"}

Range(seq) == {seq[i] : i \in 1..Len(seq)}

\* ------------------------------------------------------------------------
\* Graph view: construction (the effect on [sites, links])
\* ------------------------------------------------------------------------
AlphaScale == 1000

AlphaInit == AlphaScale

\* d3's default alphaMin, 0.001
AlphaMin == AlphaScale \div 1000

\* simulation.alphaTarget(0.3)
DragTarget == (3 * AlphaScale) \div 10

\* l.score > 0.2
Threshold_Tenth == <<1, 10>>

Threshold == <<2, 10>>

Points == 0..MaxCoord

Vels == 0..MaxVel

\* sites.map(d => ({ ...d })): a node has no position until the simulation
\* initialises it (d3 places a new node on a fixed spiral, at rest, unpinned)
newNode(id) == [id |-> id, pos |-> 0, vel |-> 0, pin |-> <<>>]

idsOf(list) == [i \in 1..Len(list) |-> list[i].id]

mapLink(l) == [source |-> l.sourceId, target |-> l.targetId, score |-> l.score]

buildLinkData_ScoreOnly(nodeIds, links) ==
  LET kept == SelectSeq(links, LAMBDA l : RatLess(Threshold, l.score))
  IN [k \in 1..Len(kept) |-> mapLink(kept[k])]

buildLinkData(nodeIds, links) ==
  LET kept == SelectSeq(links, LAMBDA l : /\ RatLess(Threshold, l.score)
                                          /\ has(nodeIds, l.sourceId)
                                          /\ has(nodeIds, l.targetId))
  IN [k \in 1..Len(kept) |-> mapLink(kept[k])]

\* forceLink(linkData).id(d => d.id) resolves both endpoints of every link
\* among the nodes and throws when one is missing
linkResolves(ns, l) == has(idsOf(ns), l.source) /\ has(idsOf(ns), l.target)

forceLinkThrows(ns, ls) == \E k \in 1..Len(ls) : ~linkResolves(ns, ls[k])

\* the gestures in progress keep writing to the node objects of the replaced
\* node set
markStale(gs) == {[g EXCEPT !.stale = TRUE, !.node = 0] : g \in gs}

\* the cleanup of the previous effect run: simulation.stop().  Only a run
\* that got past the early return has a cleanup.
cleanupStops(isLive, isRunning) == IF isLive THEN FALSE ELSE isRunning

\* d3.forceSimulation(nodes): alpha 1, alphaTarget 0, timer started
forceSimulation_Resume ==
  [alpha |-> alpha, alphaTarget |-> alphaTarget, running |-> running]

forceSimulation == [alpha |-> AlphaInit, alphaTarget |-> 0, running |-> TRUE]

\* One run of the effect of NetworkGraph with the props pSites (ids) and
\* pLinks, preceded by the cleanup of the previous run; isMounted is FALSE
\* when the component unmounts (cleanup only).
GraphEffect(pSites, pLinks, isMounted) ==
  LET afterCleanup == cleanupStops(live, running)
      ns == [i \in 1..Len(pSites) |-> newNode(pSites[i])]
      ls == buildLinkData(NewSet(pSites), pLinks)
  IN IF ~isMounted
     THEN \* the elements leave the document with the component
          /\ hasSim' = FALSE /\ live' = FALSE
          /\ nodes' = <<>> /\ linkData' = <<>>
          /\ running' = FALSE
          /\ staleRunning' = (staleRunning \/ (hasSim /\ afterCleanup))
          /\ gestures' = markStale(gestures)
          /\ UNCHANGED <<linkError, alpha, alphaTarget>>
     ELSE IF Len(pSites) = 0
     THEN \* if (!svgRef.current || !sites.length) return;
          /\ live' = FALSE
          /\ running' = afterCleanup
          /\ UNCHANGED <<hasSim, nodes, linkData, linkError, alpha,
                         alphaTarget, staleRunning, gestures>>
     ELSE IF forceLinkThrows(ns, ls)
     THEN \* svg cleared, simulation created, then .force("link", ...) throws
          /\ linkError' = TRUE
          /\ hasSim' = FALSE /\ live' = FALSE
          /\ nodes' = <<>> /\ linkData' = <<>>
          /\ running' = FALSE
          /\ staleRunning' = TRUE
          /\ gestures' = markStale(gestures)
          /\ UNCHANGED <<alpha, alphaTarget>>
     ELSE /\ hasSim' = TRUE /\ live' = TRUE
          /\ nodes' = ns /\ linkData' = ls
          /\ alpha' = forceSimulation.alpha
          /\ alphaTarget' = forceSimulation.alphaTarget
          /\ running' = forceSimulation.running
          /\ staleRunning' = (staleRunning \/ (hasSim /\ afterCleanup))
          /\ gestures' = markStale(gestures)
          /\ UNCHANGED linkError

\* ------------------------------------------------------------------------
\* App
\* ------------------------------------------------------------------------
\* useState initial values of App
AppInit ==
  /\ sites = TN_SITES
  /\ similarityData = <<>>
  /\ selectedSite = <<>>
  /\ activeTab = "dashboard"
  /\ sitesDirty = TRUE
  /\ linksDirty = FALSE
  /\ simComputed = FALSE
  /\ clock = 0
  /\ nAdds = 0
  /\ nUpdates = 0

\* NetworkGraph not mounted
GraphIdle ==
  /\ gSites = <<>>
  /\ gLinks = <<>>
  /\ mounted = FALSE
  /\ hasSim = FALSE
  /\ live = FALSE
  /\ nodes = <<>>
  /\ linkData = <<>>
  /\ linkError = FALSE
  /\ alpha = 0
  /\ alphaTarget = 0
  /\ running = FALSE
  /\ staleRunning = FALSE
  /\ gestures = {}

PairIdle ==
  /\ pairA = <<>>
  /\ pairB = <<>>
  /\ scoreAB = <<>>
  /\ scoreBA = <<>>

IngestIdle ==
  /\ rawLabels = <<>>
  /\ mappedLabels = <<>>
  /\ siteChronology = <<>>
  /\ derivations = <<>>

HashIdle ==
  /\ hashInput = <<>>
  /\ hashOutput = <<>>

\* no site details shown
DetailIdle ==
  /\ allSites = <<>>
  /\ detailSite = <<>>
  /\ shown = <<>>
  /\ similarityInsights = <<>>
  /\ loadingSimilarity = <<>>
  /\ errorSimilarity = <<>>
  /\ requestInProgress = {}
  /\ requests = {}
  /\ nClicks = 0
  /\ nEdits = 0

\* useState initial values of Dashboard, no run of processReport
RunIdle ==
  /\ isIngesting = FALSE
  /\ ingestionStep = ""
  /\ error = <<>>
  /\ runs = {}
  /\ nRuns = 0

MoreIdle == HashIdle /\ DetailIdle /\ RunIdle

Init == AppInit /\ GraphIdle /\ PairIdle /\ IngestIdle /\ MoreIdle

\* the first render of App is committed and its effects have run: no event
\* is handled before
appReady == simComputed

\* setSites(prev => [...prev, newSite]); setSelectedSite(newSite)
handleAddSite(newSite) ==
  /\ sites' = Append(sites, newSite)
  /\ selectedSite' = <<newSite>>
  /\ sitesDirty' = TRUE

\* the update written into the site list without a new sites state, so that
\* no render is scheduled
handleUpdateSite_InPlace(updatedSite) ==
  /\ sites' = [i \in 1..Len(sites) |->
                 IF sites[i].id = updatedSite.id THEN updatedSite ELSE sites[i]]
  /\ selectedSite' = <<updatedSite>>
  /\ UNCHANGED sitesDirty

\* handleUpdateSite replacing the first entry with the id only
handleUpdateSite_FirstOnly(updatedSite) ==
  /\ sites' = [i \in 1..Len(sites) |->
                 IF /\ sites[i].id = updatedSite.id
                    /\ \A j \in 1..(i - 1) : sites[j].id # updatedSite.id
                 THEN updatedSite ELSE sites[i]]
  /\ selectedSite' = <<updatedSite>>
  /\ sitesDirty' = TRUE

\* setSites(prev => prev.map(s => s.id === updatedSite.id ? updatedSite : s));
\* setSelectedSite(updatedSite)
handleUpdateSite(updatedSite) ==
  /\ sites' = [i \in 1..Len(sites) |->
                 IF sites[i].id = updatedSite.id THEN updatedSite ELSE sites[i]]
  /\ selectedSite' = <<updatedSite>>
  /\ sitesDirty' = TRUE

\* the end of processReport: the new site gets its derived id and is added.
\* Date.now() is read at the derivation; one run takes more than 800 ms, so
\* successive runs read increasing values.
AddSite ==
  /\ appReady
  /\ nAdds < MaxAdds
  /\ \E siteName \in SiteNames, siteDistrict \in Districts,
        arts \in ReportArtifacts, now \in (clock + 1)..Len(Times) :
       /\ clock' = now
       /\ handleAddSite([id |-> siteId(siteName, siteDistrict, Times[now]),
                         artifacts |-> arts])
  /\ nAdds' = nAdds + 1
  /\ UNCHANGED <<similarityData, activeTab, linksDirty, simComputed,
                 nUpdates, propVars, simVars, pairVars, ingestVars, moreVars>>

\* Dashboard onSelectSite
SelectSite ==
  /\ appReady
  /\ \E i \in 1..MaxSelect : i <= Len(sites) /\ selectedSite' = <<sites[i]>>
  /\ selectedSite' # selectedSite
  /\ UNCHANGED <<sites, similarityData, activeTab, sitesDirty, linksDirty,
                 simComputed, clock, nAdds, nUpdates, propVars, simVars, pairVars, ingestVars, moreVars>>

\* SiteDetails onClose
CloseDetails ==
  /\ appReady
  /\ selectedSite # <<>>
  /\ selectedSite' = <<>>
  /\ UNCHANGED <<sites, similarityData, activeTab, sitesDirty, linksDirty,
                 simComputed, clock, nAdds, nUpdates, propVars, simVars, pairVars, ingestVars, moreVars>>

\* SiteDetails handleAddArtifact
AddArtifact ==
  /\ appReady
  /\ selectedSite # <<>>
  /\ nUpdates < MaxUpdates
  /\ Len(selectedSite[1].artifacts) < MaxArtifacts
  /\ \E m \in NewMaterials :
       LET site == selectedSite[1]
       IN handleUpdateSite([site EXCEPT !.artifacts = Append(@, Art(m))])
  /\ nUpdates' = nUpdates + 1
  /\ UNCHANGED <<similarityData, activeTab, linksDirty, simComputed, clock,
                 nAdds, propVars, simVars, pairVars, ingestVars, moreVars>>

\* SiteDetails removeArtifact(index)
RemoveArtifact ==
  /\ appReady
  /\ selectedSite # <<>>
  /\ nUpdates < MaxUpdates
  /\ \E index \in 1..Len(selectedSite[1].artifacts) :
       LET site == selectedSite[1]
           kept == [k \in 1..(Len(site.artifacts) - 1) |->
                      IF k < index THEN site.artifacts[k]
                      ELSE site.artifacts[k + 1]]
       IN handleUpdateSite([site EXCEPT !.artifacts = kept])
  /\ nUpdates' = nUpdates + 1
  /\ UNCHANGED <<similarityData, activeTab, linksDirty, simComputed, clock,
                 nAdds, propVars, simVars, pairVars, ingestVars, moreVars>>

\* NavButton onClick
SwitchTab ==
  /\ appReady
  /\ \E t \in Tabs : t # activeTab /\ activeTab' = t
  /\ UNCHANGED <<sites, similarityData, selectedSite, sitesDirty, linksDirty,
                 simComputed, clock, nAdds, nUpdates, propVars, simVars, pairVars, ingestVars, moreVars>>

\* {activeTab === 'network' && <NetworkGraph sites={sites} links={similarityData} />}
rendersGraph == (activeTab = "network")

\* the effect of NetworkGraph, or its cleanup, runs at the next commit: the
\* component is mounted or unmounted, or stays with a new sites or links array
graphEffectDue ==
  \/ mounted # rendersGraph
  \/ rendersGraph /\ (sitesDirty \/ linksDirty)

\* a render of App is scheduled: a state was set (sites, similarityData) or
\* the tab shown differs from the one committed
renderScheduled == sitesDirty \/ linksDirty \/ mounted # rendersGraph

\* One render of App with its commit: NetworkGraph receives the sites and the
\* similarity data of this render; its effect runs first (child before
\* parent), then the similarity effect of App when sites changed.
Commit ==
  LET nowMounted == rendersGraph
      graphRuns == graphEffectDue
  IN /\ renderScheduled
     /\ mounted' = nowMounted
     /\ gSites' = (IF nowMounted THEN idsOf(sites) ELSE <<>>)
     /\ gLinks' = (IF nowMounted THEN similarityData ELSE <<>>)
     /\ IF graphRuns
        THEN GraphEffect(idsOf(sites), similarityData, nowMounted)
        ELSE UNCHANGED simVars
     /\ IF sitesDirty
        THEN /\ similarityData' = computeResults(sites)
             /\ linksDirty' = TRUE
             /\ simComputed' = TRUE
        ELSE /\ linksDirty' = FALSE
             /\ UNCHANGED <<similarityData, simComputed>>
     /\ sitesDirty' = FALSE
     /\ UNCHANGED <<sites, selectedSite, activeTab, clock, nAdds, nUpdates, pairVars, ingestVars, moreVars>>

Next ==
  \/ AddSite
  \/ SelectSite
  \/ CloseDetails
  \/ AddArtifact
  \/ RemoveArtifact
  \/ SwitchTab
  \/ Commit

Spec == Init /\ [][Next]_vars

\* A scheduled render is eventually committed: React runs the render that
\* setSites / setSimilarityData scheduled, and the effects of its commit
\* (stated on the flags a commit settles, which only a Commit step settles
\* while a render is scheduled: CommitSettles)
Committed ==
  /\ renderScheduled
  /\ sitesDirty' = FALSE
  /\ linksDirty' = sitesDirty
  /\ mounted' = rendersGraph

\* what a commit settles
commitVars == <<sitesDirty, linksDirty, mounted>>

FairSpec == Spec /\ WF_commitVars(Committed)


\* ------------------------------------------------------------------------
\* The similarity engine on its own: calculateSim applied to two sites, in
\* both orders
\* ------------------------------------------------------------------------
MaterialPool == {Terracotta, Iron, IRON, Gold, Glass}

RECURSIVE ListsUpTo(_)
ListsUpTo(n) ==
  IF n = 0 THEN {<<>>}
  ELSE LET shorter == ListsUpTo(n - 1)
       IN shorter \cup {Append(l, Art(m)) : l \in shorter, m \in MaterialPool}

PairInit ==
  /\ AppInit /\ GraphIdle /\ IngestIdle /\ MoreIdle
  /\ pairA \in ListsUpTo(MaxPairLen)
  /\ pairB \in ListsUpTo(MaxPairLen)
  /\ scoreAB = <<>>
  /\ scoreBA = <<>>

ScorePair ==
  /\ scoreAB = <<>>
  /\ LET a == [id |-> <<97>>, artifacts |-> pairA]
         b == [id |-> <<98>>, artifacts |-> pairB]
     IN /\ scoreAB' = <<calculateSim(a, b)>>
        /\ scoreBA' = <<calculateSim(b, a)>>
  /\ UNCHANGED <<pairA, pairB, appVars, propVars, simVars, ingestVars, moreVars>>

PairNext == ScorePair

PairSpec == PairInit /\ [][PairNext]_vars


\* ------------------------------------------------------------------------
\* Graph view on its own: NetworkGraph under any props, with the ticks of
\* the simulation and the drag gestures
\* ------------------------------------------------------------------------
GraphIds == [i \in 1..MaxNodes |-> TN_SITES[i].id]

\* the site lists handed to the component: the first n sites
SiteLists == {SubSeq(GraphIds, 1, n) : n \in 0..MaxNodes}

\* scores around the threshold: 0.1, 0.2 and 0.25
Scores == {<<1, 10>>, <<1, 5>>, <<1, 4>>}

\* candidate edges: a pair of the sites, in list order, with a score
LinkPool ==
  {[sourceId |-> GraphIds[p[1]], targetId |-> GraphIds[p[2]], score |-> sc] :
     p \in {q \in (1..MaxNodes) \X (1..MaxNodes) : q[1] < q[2]}, sc \in Scores}

RECURSIVE LinkLists(_)
LinkLists(n) ==
  IF n = 0 THEN {<<>>}
  ELSE LET shorter == LinkLists(n - 1)
       IN shorter \cup {Append(ls, l) : ls \in shorter, l \in LinkPool}

Pointers == 1..MaxPointers

GraphInit == AppInit /\ GraphIdle /\ PairIdle /\ IngestIdle /\ MoreIdle

\* d3's tick: alpha += (alphaTarget - alpha) * alphaDecay
alphaStep_NoDecay(a, target) == a

\* the tick stepping twice the distance to the target
alphaStep_Overshoot(a, target) == a + 2 * (target - a)

alphaStep(a, target) == a + (((target - a) * (DecayDen - 1)) \div DecayDen)

\* d3's tick, per node, after the forces have set the velocity to v:
\* if (node.fx == null) node.x += node.vx; else node.x = node.fx, node.vx = 0
integrate_IgnorePin(node, v) ==
  [node EXCEPT !.vel = v, !.pos = (node.pos + v) % (MaxCoord + 1)]

integrate(node, v) ==
  IF node.pin = <<>>
  THEN [node EXCEPT !.vel = v, !.pos = (node.pos + v) % (MaxCoord + 1)]
  ELSE [node EXCEPT !.pos = node.pin[1], !.vel = 0]

\* event.active: the gestures of this drag behaviour already in progress
active(gs) == Cardinality({g \in gs : ~g.stale})

\* first render of NetworkGraph (the network tab is opened)
Mount(pSites, pLinks) ==
  /\ ~mounted
  /\ mounted' = TRUE
  /\ gSites' = pSites
  /\ gLinks' = pLinks
  /\ GraphEffect(pSites, pLinks, TRUE)
  /\ UNCHANGED <<appVars, pairVars, ingestVars, moreVars>>

\* a render with a new sites or links array: the effect runs again
SetProps(pSites, pLinks) ==
  /\ mounted
  /\ gSites' = pSites
  /\ gLinks' = pLinks
  /\ GraphEffect(pSites, pLinks, TRUE)
  /\ UNCHANGED <<mounted, appVars, pairVars, ingestVars, moreVars>>

\* the network tab is left
Unmount ==
  /\ mounted
  /\ mounted' = FALSE
  /\ gSites' = <<>>
  /\ gLinks' = <<>>
  /\ GraphEffect(<<>>, <<>>, FALSE)
  /\ UNCHANGED <<appVars, pairVars, ingestVars, moreVars>>

\* one step of the simulation's timer
Tick ==
  /\ running
  /\ alpha' = alphaStep(alpha, alphaTarget)
  /\ \E v \in [1..Len(nodes) -> Vels] :
       nodes' = [k \in 1..Len(nodes) |-> integrate(nodes[k], v[k])]
  /\ running' = ~(alpha' < AlphaMin)
  /\ UNCHANGED <<hasSim, live, linkData, linkError, alphaTarget, staleRunning,
                 gestures, propVars, appVars, pairVars, ingestVars, moreVars>>

\* dragstarted without simulation.alphaTarget(0.3).restart()
DragStart_NoRestart(ptr, k) ==
  /\ hasSim
  /\ k \in 1..Len(nodes)
  /\ \A g \in gestures : g.ptr # ptr
  /\ nodes' = [nodes EXCEPT ![k].pin = <<nodes[k].pos>>]
  /\ gestures' = gestures \cup {[ptr |-> ptr, node |-> k, stale |-> FALSE]}
  /\ UNCHANGED <<hasSim, live, linkData, linkError, alpha, alphaTarget, running,
                 staleRunning, propVars, appVars, pairVars, ingestVars, moreVars>>

\* dragstarted: the pointer ptr goes down on the k-th node.  The position d3
\* reports for the pointer at the start of a gesture is the position of the
\* node (event.x = subject.x, the offset to the pointer being kept for the
\* whole gesture).
DragStart(ptr, k) ==
  /\ hasSim
  /\ k \in 1..Len(nodes)
  /\ \A g \in gestures : g.ptr # ptr
  /\ IF active(gestures) = 0
     THEN alphaTarget' = DragTarget /\ running' = TRUE
     ELSE UNCHANGED <<alphaTarget, running>>
  /\ nodes' = [nodes EXCEPT ![k].pin = <<nodes[k].pos>>]
  /\ gestures' = gestures \cup {[ptr |-> ptr, node |-> k, stale |-> FALSE]}
  /\ UNCHANGED <<hasSim, live, linkData, linkError, alpha, staleRunning,
                 propVars, appVars, pairVars, ingestVars, moreVars>>

\* dragged writing the node's position instead of its pinned position
DragMove_SetPos(ptr, p) ==
  /\ \E g \in gestures :
       /\ g.ptr = ptr
       /\ IF g.stale
          THEN UNCHANGED nodes
          ELSE nodes' = [nodes EXCEPT ![g.node].pos = p]
  /\ UNCHANGED <<hasSim, live, linkData, linkError, alpha, alphaTarget, running,
                 staleRunning, gestures, propVars, appVars, pairVars, ingestVars, moreVars>>

\* dragged: the pointer ptr moves to the point p
DragMove(ptr, p) ==
  /\ \E g \in gestures :
       /\ g.ptr = ptr
       /\ IF g.stale
          THEN UNCHANGED nodes
          ELSE nodes' = [nodes EXCEPT ![g.node].pin = <<p>>]
  /\ UNCHANGED <<hasSim, live, linkData, linkError, alpha, alphaTarget, running,
                 staleRunning, gestures, propVars, appVars, pairVars, ingestVars, moreVars>>

\* dragended without event.subject.fx = null; event.subject.fy = null
DragEnd_KeepPin(ptr) ==
  /\ \E g \in gestures :
       /\ g.ptr = ptr
       /\ gestures' = gestures \ {g}
       /\ IF g.stale
          THEN UNCHANGED alphaTarget
          ELSE IF active(gestures') = 0
               THEN alphaTarget' = 0
               ELSE UNCHANGED alphaTarget
  /\ UNCHANGED <<hasSim, live, nodes, linkData, linkError, alpha, running,
                 staleRunning, propVars, appVars, pairVars, ingestVars, moreVars>>

\* dragended: the pointer ptr goes up
DragEnd_AlwaysReset(ptr) ==
  /\ \E g \in gestures :
       /\ g.ptr = ptr
       /\ gestures' = gestures \ {g}
       /\ IF g.stale
          THEN UNCHANGED <<nodes, alphaTarget>>
          ELSE /\ nodes' = [nodes EXCEPT ![g.node].pin = <<>>]
               /\ alphaTarget' = 0
  /\ UNCHANGED <<hasSim, live, linkData, linkError, alpha, running,
                 staleRunning, propVars, appVars, pairVars, ingestVars, moreVars>>

DragEnd(ptr) ==
  /\ \E g \in gestures :
       /\ g.ptr = ptr
       /\ gestures' = gestures \ {g}
       /\ IF g.stale
          THEN UNCHANGED <<nodes, alphaTarget>>
          ELSE /\ nodes' = [nodes EXCEPT ![g.node].pin = <<>>]
               /\ IF active(gestures') = 0
                  THEN alphaTarget' = 0
                  ELSE UNCHANGED alphaTarget
  /\ UNCHANGED <<hasSim, live, linkData, linkError, alpha, running,
                 staleRunning, propVars, appVars, pairVars, ingestVars, moreVars>>

\* one step of the timer of a simulation that was replaced while its timer
\* was scheduled: it moves the nodes of the replaced node set; the timer stops
\* once alpha has decayed, which a gesture begun on that graph prevents
StaleTick ==
  /\ staleRunning
  /\ \E stops \in BOOLEAN :
       /\ stops => \A g \in gestures : ~g.stale
       /\ staleRunning' = ~stops
  /\ UNCHANGED <<hasSim, live, nodes, linkData, linkError, alpha, alphaTarget,
                 running, gestures, propVars, appVars, pairVars, ingestVars, moreVars>>

GraphNext ==
  \/ \E pSites \in SiteLists, pLinks \in LinkLists(MaxLinks) : Mount(pSites, pLinks)
  \/ \E pSites \in SiteLists, pLinks \in LinkLists(MaxLinks) : SetProps(pSites, pLinks)
  \/ Unmount
  \/ Tick
  \/ StaleTick
  \/ \E ptr \in Pointers, k \in 1..MaxNodes : DragStart(ptr, k)
  \/ \E ptr \in Pointers, p \in Points : DragMove(ptr, p)
  \/ \E ptr \in Pointers : DragEnd(ptr)

GraphSpec == GraphInit /\ [][GraphNext]_vars

\* handleUpdateSite on any site list and any updated site: ids may repeat in
\* the list, and the updated site's id may be absent from it.
UpdateIds == {<<97>>, <<98>>, <<99>>}

UpdatePool ==
  [id : UpdateIds, artifacts : {<<>>, <<Art(Iron)>>, <<Art(Gold)>>}]

RECURSIVE UpdateLists(_)
UpdateLists(n) ==
  IF n = 0 THEN {<<>>}
  ELSE LET shorter == UpdateLists(n - 1)
       IN shorter \cup {Append(l, s) : l \in {x \in shorter : Len(x) = n - 1},
                                       s \in UpdatePool}

UpdateInit ==
  /\ sites \in UpdateLists(MaxListLen)
  /\ similarityData = <<>>
  /\ selectedSite = <<>>
  /\ activeTab = "dashboard"
  /\ sitesDirty = TRUE
  /\ linksDirty = FALSE
  /\ simComputed = FALSE
  /\ clock = 0
  /\ nAdds = 0
  /\ nUpdates = 0
  /\ GraphIdle /\ PairIdle /\ IngestIdle /\ MoreIdle

UpdateSite(updatedSite) ==
  /\ nUpdates < MaxUpdates
  /\ nUpdates' = nUpdates + 1
  /\ handleUpdateSite(updatedSite)
  /\ UNCHANGED <<similarityData, activeTab, linksDirty, simComputed, clock,
                 nAdds, propVars, simVars, pairVars, ingestVars, moreVars>>

UpdateNext == \E updatedSite \in UpdatePool : UpdateSite(updatedSite)

UpdateSpec == UpdateInit /\ [][UpdateNext]_vars

\* The graph under touch input: every finger on a node is a gesture of its
\* own of the same drag behaviour.  The graph is built for any site list,
\* without links.
Touches == 1..MaxTouches

OverlapNext ==
  \/ \E pSites \in SiteLists : Mount(pSites, <<>>)
  \/ \E pSites \in SiteLists : SetProps(pSites, <<>>)
  \/ Unmount
  \/ Tick
  \/ StaleTick
  \/ \E ptr \in Touches, k \in 1..MaxNodes : DragStart(ptr, k)
  \/ \E ptr \in Touches, p \in Points : DragMove(ptr, p)
  \/ \E ptr \in Touches : DragEnd(ptr)

OverlapSpec == GraphInit /\ [][OverlapNext]_vars

\* the timer of the simulation is served as long as it is scheduled
FairGraphSpec == GraphSpec /\ WF_vars(Tick)


\* ------------------------------------------------------------------------
\* The chronology mapping on its own: the labels of a report are mapped and
\* the chronology of the new site is made from them
\* ------------------------------------------------------------------------
\* let uniqueChronology = Array.from(new Set(mappedChronology));
\* if (uniqueChronology.length > 1) uniqueChronology = uniqueChronology.filter(...)
uniqueChronology_KeepUnknown(mapped) == NewSet(mapped)

uniqueChronology(mapped) ==
  LET unique == NewSet(mapped)
  IN IF Len(unique) > 1
     THEN SelectSeq(unique, LAMBDA c : c # UNKNOWN)
     ELSE unique

\* chronology: uniqueChronology.length > 0 ? uniqueChronology : [Chronology.UNKNOWN]
newSiteChronology(unique) == IF Len(unique) > 0 THEN unique ELSE <<UNKNOWN>>

\* words the labels of a report are made of
\* "Megalithic"
WordMegalithic == <<77, 101, 103, 97, 108, 105, 116, 104, 105, 99>>

\* " Age"
WordAge == <<32, 65, 103, 101>>

\* " burial"
WordBurial == <<32, 98, 117, 114, 105, 97, 108>>

\* "completely unrelated text"
WordUnrelated == <<99, 111, 109, 112, 108, 101, 116, 101, 108, 121, 32, 117, 110, 114, 101, 108, 97, 116, 101, 100, 32, 116, 101, 120, 116>>

\* "Chola"
WordChola == <<67, 104, 111, 108, 97>>

\* " navy"
WordNavy == <<32, 110, 97, 118, 121>>

\* "Iron"
WordIron == <<73, 114, 111, 110>>

\* "Sangam"
WordSangam == <<83, 97, 110, 103, 97, 109>>

Words == {WordMegalithic, WordAge, WordBurial, WordUnrelated, WordChola, WordNavy, WordIron, WordSangam}

\* the lists of labels made of n words in all, each label of one word or more
RECURSIVE LabelLists(_)
LabelLists(n) ==
  IF n = 0 THEN {<<>>}
  ELSE LET shorter == LabelLists(n - 1)
       IN UNION {{Append(l, w) : w \in Words} \cup
                 (IF l = <<>> THEN {}
                  ELSE {[l EXCEPT ![Len(l)] = @ \o w] : w \in Words}) : l \in shorter}

ChronologyInit ==
  /\ AppInit /\ GraphIdle /\ PairIdle /\ MoreIdle
  /\ rawLabels \in UNION {LabelLists(n) : n \in 0..MaxWords}
  /\ mappedLabels = <<>>
  /\ siteChronology = <<>>
  /\ derivations = <<>>

\* (extracted.chronology || []).map(mapChronologyFuzzy), uniqueChronology and
\* the chronology of newSite
MapChronology ==
  /\ siteChronology = <<>>
  /\ mappedLabels' = [i \in 1..Len(rawLabels) |-> mapChronologyFuzzy(rawLabels[i])]
  /\ siteChronology' = <<newSiteChronology(uniqueChronology(mappedLabels'))>>
  /\ UNCHANGED <<rawLabels, derivations, appVars, propVars, simVars, pairVars,
                 moreVars>>

ChronologyNext == MapChronology

ChronologySpec == ChronologyInit /\ [][ChronologyNext]_vars


\* ------------------------------------------------------------------------
\* The id derivation on its own: ids are derived one after the other from
\* any names, districts and readings of Date.now()
\* ------------------------------------------------------------------------
RawNames == {KeezhadiII, KeezhadiDashed}

DeriveInit == AppInit /\ GraphIdle /\ PairIdle /\ IngestIdle /\ MoreIdle

\* the four lines of processReport that make siteId
DeriveId(siteName, siteDistrict, now) ==
  /\ Len(derivations) < MaxDerive
  /\ derivations' = Append(derivations,
                            [name |-> siteName, district |-> siteDistrict, now |-> now,
                             id |-> siteId(siteName, siteDistrict, Times[now])])
  /\ UNCHANGED <<rawLabels, mappedLabels, siteChronology, appVars, propVars,
                 simVars, pairVars, moreVars>>

DeriveNext ==
  \E siteName \in RawNames, siteDistrict \in Districts, now \in 1..Len(Times) :
    DeriveId(siteName, siteDistrict, now)

DeriveSpec == DeriveInit /\ [][DeriveNext]_vars


\* ------------------------------------------------------------------------
\* stringToHash on its own, applied to any string made of a few words
\* ------------------------------------------------------------------------
\* "polygenelubricants"
WordPolygene == <<112, 111, 108, 121, 103, 101, 110, 101, 108, 117, 98, 114, 105, 99, 97, 110, 116, 115>>

\* "GydZG_"
WordGyd == <<71, 121, 100, 90, 71, 95>>

\* "a"
WordA == <<97>>

\* "-"
WordDash == <<45>>

\* two code units of the largest value
WordMaxUnits == <<65535, 65535>>

HashWords == {WordPolygene, WordGyd, WordA, WordDash, WordMaxUnits,
              KeezhadiDashed, Sivaganga, Time1}

RECURSIVE HashInputs(_)
HashInputs(n) ==
  IF n = 0 THEN {<<>>}
  ELSE HashInputs(n - 1) \cup {s \o w : s \in HashInputs(n - 1), w \in HashWords}

HashInit ==
  /\ AppInit /\ GraphIdle /\ PairIdle /\ IngestIdle
  /\ hashInput \in HashInputs(MaxHashWords)
  /\ hashOutput = <<>>
  /\ DetailIdle /\ RunIdle

\* one call of stringToHash(str)
HashString ==
  /\ hashOutput = <<>>
  /\ hashOutput' = <<[hash |-> hashLoop(hashInput, 1, <<0, 0>>),
                      text |-> stringToHash(hashInput)]>>
  /\ UNCHANGED <<hashInput, detailVars, runVars, appVars, propVars, simVars,
                 pairVars, ingestVars>>

HashNext == HashString

HashSpec == HashInit /\ [][HashNext]_vars


\* ------------------------------------------------------------------------
\* Site details on its own: the overlay of App with its similarity
\* explanations.  A site is its id with the number of its revisions; App
\* starts with two sites and one more is ingested.
\* ------------------------------------------------------------------------
DetailIds == {TN_SITES[1].id, TN_SITES[2].id}

\* the id of the ingested site
IngestedId == siteId(KeezhadiII, Sivaganga, Time1)

\* useState({}) of similarityInsights and errorSimilarity
NoInsights == [t \in DetailIds \cup {IngestedId} |-> <<>>]

NoErrors == [t \in DetailIds \cup {IngestedId} |-> FALSE]

DetailInit ==
  /\ AppInit /\ GraphIdle /\ PairIdle /\ IngestIdle /\ HashIdle /\ RunIdle
  /\ allSites = <<[id |-> TN_SITES[1].id, rev |-> 0], [id |-> TN_SITES[2].id, rev |-> 0]>>
  /\ detailSite = <<>>
  /\ shown = <<>>
  /\ similarityInsights = NoInsights
  /\ loadingSimilarity = <<>>
  /\ errorSimilarity = NoErrors
  /\ requestInProgress = {}
  /\ requests = {}
  /\ nClicks = 0
  /\ nEdits = 0

\* topSimilarSites: the other sites (at most 3, which the sites of this
\* model never exceed), by their ids
targetsOf(site, all) == {all[i].id : i \in {j \in 1..Len(all) : all[j].id # site.id}}

\* what a render of App shows of SiteDetails, from the state as it is
nextShown ==
  IF detailSite = <<>> THEN <<>>
  ELSE <<[site |-> detailSite[1],
          targets |-> targetsOf(detailSite[1], allSites),
          insights |-> similarityInsights,
          loading |-> loadingSimilarity,
          error |-> errorSimilarity]>>

\* no render is scheduled.  The state set in a click handler is rendered
\* before the handler's event ends, the state set after an await in a render
\* scheduled next; the user acts on what a finished render shows.
settled == shown = nextShown

\* Dashboard onSelectSite(site), the dashboard being reachable while no
\* overlay is rendered; SiteDetails is mounted
OpenDetails ==
  /\ settled
  /\ shown = <<>>
  /\ \E i \in 1..Len(allSites) : detailSite' = <<allSites[i]>>
  /\ UNCHANGED <<allSites, similarityInsights, loadingSimilarity,
                 errorSimilarity, requestInProgress, requests, nClicks, nEdits>>
  /\ shown' = nextShown'
  /\ UNCHANGED <<hashVars, runVars, appVars, propVars, simVars, pairVars, ingestVars>>

\* SiteDetails onClose: setSelectedSite(null).  SiteDetails is unmounted:
\* its state and its ref are dropped, the requests it issued go on.
CloseOverlay ==
  /\ settled
  /\ shown # <<>>
  /\ detailSite' = <<>>
  /\ shown' = <<>>
  /\ similarityInsights' = NoInsights
  /\ loadingSimilarity' = <<>>
  /\ errorSimilarity' = NoErrors
  /\ requestInProgress' = {}
  /\ requests' = {[r EXCEPT !.dead = TRUE] : r \in requests}
  /\ UNCHANGED <<allSites, nClicks, nEdits,
                 hashVars, runVars, appVars, propVars, simVars, pairVars, ingestVars>>

\* a report ingestion started earlier ends: handleAddSite(newSite) appends
\* the site and selects it
IngestionEnds ==
  /\ Len(allSites) = Cardinality(DetailIds)
  /\ LET newSite == [id |-> IngestedId, rev |-> 0]
     IN /\ allSites' = Append(allSites, newSite)
        /\ detailSite' = <<newSite>>
  /\ UNCHANGED <<shown, similarityInsights, loadingSimilarity,
                 errorSimilarity, requestInProgress, requests, nClicks,
                 nEdits, hashVars, runVars, appVars, propVars, simVars, pairVars,
                 ingestVars>>

\* handleAddArtifact / removeArtifact of the rendered overlay:
\* onUpdateSite({...site, artifacts}) with the site prop of that render
EditArtifacts ==
  /\ settled
  /\ shown # <<>>
  /\ nEdits < MaxEdits
  /\ LET updatedSite == [shown[1].site EXCEPT !.rev = @ + 1]
     IN /\ allSites' = [i \in 1..Len(allSites) |->
                          IF allSites[i].id = updatedSite.id THEN updatedSite
                          ELSE allSites[i]]
        /\ detailSite' = <<updatedSite>>
  /\ nEdits' = nEdits + 1
  /\ UNCHANGED <<similarityInsights, loadingSimilarity, errorSimilarity,
                 requestInProgress, requests, nClicks>>
  /\ shown' = nextShown'
  /\ UNCHANGED <<hashVars, runVars, appVars, propVars, simVars, pairVars, ingestVars>>

\* a click on "Compute Cultural Link" (enabled unless loadingSimilarity is
\* the target in the rendered overlay) or on "Try Again" (rendered with the
\* error): fetchSimilarityExplanation(target) up to its await, with site and
\* similarityInsights of the render the handler belongs to
ClickCompute(target) ==
  /\ settled
  /\ shown # <<>>
  /\ target \in shown[1].targets
  /\ shown[1].loading # <<target>> \/ shown[1].error[target]
  /\ nClicks < MaxClicks
  /\ IF target \in requestInProgress \/ shown[1].insights[target] # <<>>
     THEN UNCHANGED <<requestInProgress, loadingSimilarity, errorSimilarity,
                      requests>>
     ELSE /\ requestInProgress' = requestInProgress \cup {target}
          /\ loadingSimilarity' = <<target>>
          /\ errorSimilarity' = [errorSimilarity EXCEPT ![target] = FALSE]
          /\ requests' = requests \cup
                           {[site |-> shown[1].site, target |-> target, dead |-> FALSE]}
  /\ nClicks' = nClicks + 1
  /\ UNCHANGED <<allSites, detailSite, similarityInsights, nEdits>>
  /\ shown' = nextShown'
  /\ UNCHANGED <<hashVars, runVars, appVars, propVars, simVars, pairVars, ingestVars>>

\* the answer to a request arrives: the rest of fetchSimilarityExplanation
\* (try or catch, then finally).  The state setters of an unmounted instance
\* have no effect and its ref is not the one of the mounted instance.
RequestSettles(request, ok) ==
  /\ request \in requests
  /\ requests' = requests \ {request}
  /\ IF request.dead
     THEN UNCHANGED <<similarityInsights, loadingSimilarity, errorSimilarity,
                      requestInProgress>>
     ELSE /\ IF ok
             THEN /\ similarityInsights' =
                       [similarityInsights EXCEPT ![request.target] =
                          <<[site |-> request.site, target |-> request.target]>>]
                  /\ UNCHANGED errorSimilarity
             ELSE /\ errorSimilarity' = [errorSimilarity EXCEPT ![request.target] = TRUE]
                  /\ UNCHANGED similarityInsights
          /\ loadingSimilarity' = <<>>
          /\ requestInProgress' = requestInProgress \ {request.target}
  /\ UNCHANGED <<allSites, detailSite, shown, nClicks, nEdits,
                 hashVars, runVars, appVars, propVars, simVars, pairVars, ingestVars>>

\* the render scheduled by a state set after an await is committed:
\* {selectedSite && <SiteDetails site={selectedSite} allSites={sites} />}
RenderDetails ==
  /\ ~settled
  /\ shown' = nextShown
  /\ UNCHANGED <<allSites, detailSite, similarityInsights, loadingSimilarity,
                 errorSimilarity, requestInProgress, requests, nClicks, nEdits,
                 hashVars, runVars, appVars, propVars, simVars, pairVars, ingestVars>>

DetailNext ==
  \/ OpenDetails
  \/ CloseOverlay
  \/ IngestionEnds
  \/ EditArtifacts
  \/ \E target \in DetailIds \cup {IngestedId} : ClickCompute(target)
  \/ \E request \in requests, ok \in BOOLEAN : RequestSettles(request, ok)
  \/ RenderDetails

DetailSpec == DetailInit /\ [][DetailNext]_vars


\* ------------------------------------------------------------------------
\* Report ingestion on its own: the Dashboard with its ingestion zone and the
\* runs of processReport, App showing the Dashboard or another tab.  The
\* state set in an event handler is rendered before the next event.
\* ------------------------------------------------------------------------
IngestionInit == AppInit /\ GraphIdle /\ PairIdle /\ IngestIdle /\ MoreIdle

\* what extractSiteAnalysis and the processing of its result come to: the
\* call throws; it returns an empty result; it returns a result the
\* processing throws on (a chronology that is no list of strings); it
\* returns a result processReport makes a site of
Outcomes == {"throws", "empty", "malformed", "site"}

\* handleFile(file) accepts text and PDF files
FileKinds == {"report", "other"}

\* processReport up to its first await
processReport(run) ==
  /\ isIngesting' = TRUE
  /\ ingestionStep' = "Parsing"
  /\ error' = <<>>
  /\ runs' = runs \cup {[run |-> run, at |-> "timer", newSite |-> <<>>, dead |-> FALSE]}

\* handleFile(file)
handleFile(kind) ==
  /\ nRuns < MaxRuns
  /\ nRuns' = nRuns + 1
  /\ IF kind = "other"
     THEN /\ error' = <<"Please upload a text or PDF file.">>
          /\ UNCHANGED <<isIngesting, ingestionStep, runs>>
     ELSE processReport(nRuns + 1)

\* the zone is clicked and a file chosen in the picker: the click opens the
\* picker unless isIngesting, and the input is disabled while isIngesting
PickFile(kind) ==
  /\ activeTab = "dashboard"
  /\ ~isIngesting
  /\ handleFile(kind)
  /\ UNCHANGED <<appVars, propVars, simVars, pairVars, ingestVars, hashVars,
                 detailVars>>

\* onDrop: a file is dropped on the zone
DropFile(kind) ==
  /\ activeTab = "dashboard"
  /\ handleFile(kind)
  /\ UNCHANGED <<appVars, propVars, simVars, pairVars, ingestVars, hashVars,
                 detailVars>>

\* the state setters of processReport: those of an unmounted Dashboard have
\* no effect
setRunState(r, ingesting, step, err) ==
  IF r.dead
  THEN UNCHANGED <<isIngesting, ingestionStep, error>>
  ELSE /\ isIngesting' = ingesting
       /\ ingestionStep' = step
       /\ error' = err

\* the 500 ms timer of a run fires: the step text changes and
\* extractSiteAnalysis is called
TimerFires(r) ==
  /\ r \in runs /\ r.at = "timer"
  /\ runs' = (runs \ {r}) \cup {[r EXCEPT !.at = "extraction"]}
  /\ setRunState(r, isIngesting, "Running", error)
  /\ UNCHANGED <<nRuns, appVars, propVars, simVars, pairVars, ingestVars,
                 hashVars, detailVars>>

\* extractSiteAnalysis settles.  A failure goes through catch and finally;
\* otherwise the site is made, with its id derived from Date.now(), and the
\* run waits 300 ms.
ExtractionSettles(r, outcome) ==
  /\ r \in runs /\ r.at = "extraction"
  /\ IF outcome = "site"
     THEN /\ \E siteName \in SiteNames, siteDistrict \in Districts,
                arts \in ReportArtifacts, now \in (clock + 1)..Len(Times) :
               /\ clock' = now
               /\ runs' = (runs \ {r}) \cup
                            {[r EXCEPT !.at = "finalizing",
                                       !.newSite = <<[id |-> siteId(siteName, siteDistrict, Times[now]),
                                                      artifacts |-> arts]>>]}
          /\ setRunState(r, isIngesting, "Finalizing", error)
     ELSE /\ runs' = runs \ {r}
          /\ setRunState(r, FALSE, "", <<outcome>>)
          /\ UNCHANGED clock
  /\ UNCHANGED <<sites, similarityData, selectedSite, activeTab, sitesDirty,
                 linksDirty, simComputed, nAdds, nUpdates, nRuns, propVars,
                 simVars, pairVars, ingestVars, hashVars, detailVars>>

\* the 300 ms timer of a run fires: onAddSite(newSite), then finally
RunAddsSite(r) ==
  /\ r \in runs /\ r.at = "finalizing"
  /\ runs' = runs \ {r}
  /\ handleAddSite(r.newSite[1])
  /\ setRunState(r, FALSE, "", error)
  /\ UNCHANGED <<similarityData, activeTab, linksDirty, simComputed, clock,
                 nAdds, nUpdates, nRuns, propVars, simVars, pairVars,
                 ingestVars, hashVars, detailVars>>

\* NavButton onClick: another tab is shown and the Dashboard unmounted, or
\* the Dashboard is shown again, mounted anew
ShowTab(tab) ==
  /\ tab # activeTab
  /\ activeTab' = tab
  /\ isIngesting' = FALSE
  /\ ingestionStep' = ""
  /\ error' = <<>>
  /\ runs' = {[r EXCEPT !.dead = TRUE] : r \in runs}
  /\ UNCHANGED <<sites, similarityData, selectedSite, sitesDirty, linksDirty,
                 simComputed, clock, nAdds, nUpdates, nRuns, propVars, simVars,
                 pairVars, ingestVars, hashVars, detailVars>>

IngestionNext ==
  \/ \E kind \in FileKinds : PickFile(kind)
  \/ \E kind \in FileKinds : DropFile(kind)
  \/ \E r \in runs : TimerFires(r)
  \/ \E r \in runs, outcome \in Outcomes : ExtractionSettles(r, outcome)
  \/ \E r \in runs : RunAddsSite(r)
  \/ \E tab \in Tabs : ShowTab(tab)

IngestionSpec == IngestionInit /\ [][IngestionNext]_vars


\* ------------------------------------------------------------------------
\* Properties
\* ------------------------------------------------------------------------
\* the lower-cased material set of an artifact list
LowerSet(arts) == {toLowerCase(art.material) : art \in Range(arts)}

\* C1: for every pair of sites a and b, score(a, b) equals score(b, a).
C1_Symmetric ==
  scoreAB # <<>> => RatEq(scoreAB[1], scoreBA[1]) /\ scoreAB[1][2] > 0 /\ scoreBA[1][2] > 0

C1_Witness ==
  /\ scoreAB # <<>>
  /\ LowerSet(pairA) # LowerSet(pairB)
  /\ Len(pairA) # Len(pairB)
  /\ RatLess(<<0, 1>>, scoreAB[1])
  /\ RatLess(scoreAB[1], <<1, 1>>)

C3_ScoreInUnitInterval ==
  \A k \in 1..Len(similarityData) :
    /\ similarityData[k].score[2] > 0
    /\ RatLeq(<<0, 1>>, similarityData[k].score)
    /\ RatLeq(similarityData[k].score, <<1, 1>>)

C3_Witness ==
  /\ nAdds > 0 /\ nUpdates > 0
  /\ ~sitesDirty
  /\ Len(similarityData) > Len(computeResults(TN_SITES))
  /\ \E k \in 1..Len(similarityData) : RatEq(similarityData[k].score, <<1, 1>>)
  /\ \E k \in 1..Len(similarityData) : RatEq(similarityData[k].score, <<0, 1>>)

\* position of the pair i < j of n sites in the order of the two loops
PairPos(n, i, j) == ((i - 1) * (2 * n - i)) \div 2 + (j - i)

\* one entry for every pair of distinct sites, and no other entry
Complete ==
  LET n == Len(sites)
  IN /\ Len(similarityData) = (n * (n - 1)) \div 2
     /\ \A i \in 1..n : \A j \in (i + 1)..n :
          /\ similarityData[PairPos(n, i, j)].sourceId = sites[i].id
          /\ similarityData[PairPos(n, i, j)].targetId = sites[j].id
          /\ similarityData[PairPos(n, i, j)].score[2] > 0

C7_UniqueIds ==
  \A i, j \in 1..Len(sites) : i # j => sites[i].id # sites[j].id

\* C5: every link handed to the simulation has both endpoints in the node
\* set, the node set of a build is made from the current site list, and no
\* build raises an error for an edge with an absent endpoint, whatever site
\* list and (possibly stale) edge list the build sees.
C5_LinksResolve ==
  /\ ~linkError
  /\ live => idsOf(nodes) = gSites
  /\ \A k \in 1..Len(linkData) :
       /\ linkData[k].source \in Range(idsOf(nodes))
       /\ linkData[k].target \in Range(idsOf(nodes))

\* a build from a site list with an edge list that still names another site
C5_Witness ==
  /\ live /\ running
  /\ \E k \in 1..Len(gLinks) :
       /\ gLinks[k].score = <<1, 4>>
       /\ gLinks[k].targetId \notin Range(gSites)
  /\ linkData = <<>>

\* the edges of the list l that belong in the graph of the sites s
Wanted(s, l) ==
  {k \in 1..Len(l) : /\ 5 * l[k].score[1] > l[k].score[2]
                     /\ l[k].sourceId \in Range(s)
                     /\ l[k].targetId \in Range(s)}

\* C6: the links of a built graph are exactly the similarity edges with a
\* score above 0.2 whose two endpoint ids are ids of current sites (each
\* once, in the order of the edge list).
C6_LinkSet ==
  live =>
    /\ Len(linkData) = Cardinality(Wanted(gSites, gLinks))
    /\ \A k \in Wanted(gSites, gLinks) :
         LET at == Cardinality({j \in Wanted(gSites, gLinks) : j <= k})
         IN /\ linkData[at].source = gLinks[k].sourceId
            /\ linkData[at].target = gLinks[k].targetId
            /\ linkData[at].score = gLinks[k].score

\* an edge of score 0.25 between two current sites is in the graph
C6_Witness ==
  /\ live
  /\ Len(gSites) = 2
  /\ gLinks = <<[sourceId |-> gSites[1], targetId |-> gSites[2], score |-> <<1, 4>>]>>
  /\ Len(linkData) = 1

\* C8: a drag move to a point p pins the dragged node at p, and every tick
\* puts every pinned node exactly at its pinned point, whatever velocity the
\* forces gave it.
C8_PinnedPosition ==
  [][/\ \A ptr \in Pointers, p \in Points :
          DragMove(ptr, p) =>
            \A g \in gestures : (g.ptr = ptr /\ ~g.stale) => nodes'[g.node].pin = <<p>>
     /\ Tick => \A k \in 1..Len(nodes) :
                  nodes[k].pin # <<>> => nodes'[k].pos = nodes[k].pin[1]]_vars

\* a node grabbed at point 0 right after the build, moved to point 1, and
\* one tick later
C8_Witness ==
  /\ alphaTarget = DragTarget
  /\ alpha = alphaStep(AlphaInit, DragTarget)
  /\ \E g \in gestures :
       /\ ~g.stale
       /\ nodes[g.node].pin = <<1>>
       /\ nodes[g.node].pos = 1

\* a render that runs the effect with the sites s and the links l
Build(s, l) == Mount(s, l) \/ SetProps(s, l)

\* C9 as stated: whenever the sites or links input changes, the simulator is
\* Running afterwards with alpha = 1.
C9_Original ==
  [][\A s \in SiteLists, l \in LinkLists(MaxLinks) :
       Build(s, l) => (running' /\ alpha' = AlphaInit)]_vars

\* C9, amended: whenever the node/link set is built from a non-empty site
\* list, whatever the state of the previous simulator, the simulator is
\* Running afterwards with alpha = 1 (and alpha target 0).
C9_RunningAfterBuild ==
  [][\A s \in SiteLists, l \in LinkLists(MaxLinks) :
       (Build(s, l) /\ s # <<>>) =>
         (live' /\ running' /\ alpha' = AlphaInit /\ alphaTarget' = 0)]_vars

\* a graph rebuilt while a node was being dragged
C9_Witness ==
  /\ live /\ running
  /\ alpha = AlphaInit
  /\ alphaTarget = 0
  /\ \E g \in gestures : g.stale

Converged == ~running /\ alpha < AlphaMin

\* C10: when from some point on no drag gesture is active and only ticks
\* happen, the timer eventually stops for good, with alpha below 0.001 for a
\* simulation that has not been disposed of; and a stopped timer is scheduled
\* again only by a drag start or by a build.
C10_Converges ==
  /\ (<>[][Tick]_vars /\ <>[](active(gestures) = 0)) =>
       (<>[](~running) /\ <>[](live => Converged))
  /\ [][(~running /\ running') =>
          \/ \E ptr \in Pointers, k \in 1..MaxNodes : DragStart(ptr, k)
          \/ \E s \in SiteLists, l \in LinkLists(MaxLinks) : Build(s, l)]_vars

\* converged by ticks that moved a node
C10_Witness ==
  /\ live /\ Converged
  /\ gestures = {}
  /\ \E k \in 1..Len(nodes) : nodes[k].pos # 0


\* C11: at most one simulation has its timer scheduled, and it is the one of
\* the last effect run, not yet cleaned up: a simulation whose effect run was
\* cleaned up (input replaced, view torn down) is never scheduled again.
C11_OneLiveSimulator ==
  /\ running => live
  /\ ~staleRunning

\* the categories in their order of priority
GroupOrder == <<MEGALITHIC, SANGAM, EARLY_HISTORIC, MEDIEVAL>>

\* the lower-case letters and digits of a label, upper-case letters lowered
Alnum(raw) ==
  SelectSeq([i \in 1..Len(raw) |-> IF raw[i] \in 65..90 THEN raw[i] + 32 ELSE raw[i]],
            LAMBDA c : c \in (97..122) \cup (48..57))

\* the groups with a keyword that occurs in the text
Matching(text) ==
  {g \in 1..4 :
     \E n \in 1..Len(mappingGroups[g].keywords) :
       LET k == mappingGroups[g].keywords[n]
       IN \E off \in 0..(Len(text) - Len(k)) :
            \A j \in 1..Len(k) : text[off + j] = k[j]}

Category(raw) ==
  LET m == Matching(Alnum(raw))
  IN IF m = {} THEN UNKNOWN
     ELSE GroupOrder[CHOOSE g \in m : \A h \in m : g <= h]

\* C12: every label is mapped to the category of the first group, in the
\* order MEGALITHIC, SANGAM, EARLY_HISTORIC, MEDIEVAL, with a keyword that
\* occurs in the label stripped to lower-case letters and digits, and to
\* UNKNOWN when no group has one; "Megalithic Age burial" maps to
\* MEGALITHIC and "completely unrelated text" to UNKNOWN.
C12_FirstGroupWins ==
  siteChronology # <<>> =>
    /\ Len(mappedLabels) = Len(rawLabels)
    /\ \A i \in 1..Len(rawLabels) :
         /\ mappedLabels[i] = Category(rawLabels[i])
         /\ rawLabels[i] = WordMegalithic \o WordAge \o WordBurial
              => mappedLabels[i] = MEGALITHIC
         /\ rawLabels[i] = WordUnrelated => mappedLabels[i] = UNKNOWN

\* "Megalithic Age burial", and a label with keywords of two groups
C12_Witness ==
  /\ siteChronology # <<>>
  /\ \/ rawLabels = <<WordMegalithic \o WordAge \o WordBurial>>
     \/ /\ rawLabels = <<WordChola \o WordNavy>>
        /\ Cardinality(Matching(Alnum(rawLabels[1]))) = 2
        /\ mappedLabels = <<SANGAM>>

\* C13: the chronology of the new site is nonempty and without duplicates,
\* holds UNKNOWN only as its sole member, and holds the mapped categories
\* other than UNKNOWN whenever there is one.
C13_Chronology ==
  siteChronology # <<>> =>
    LET c == siteChronology[1]
        known == Range(mappedLabels) \ {UNKNOWN}
    IN /\ Len(c) > 0
       /\ \A i, j \in 1..Len(c) : i # j => c[i] # c[j]
       /\ UNKNOWN \in Range(c) => c = <<UNKNOWN>>
       /\ Range(c) = (IF known = {} THEN {UNKNOWN} ELSE known)

\* a report with a label of a known period, the same period again and an
\* unrelated label
C13_Witness ==
  /\ siteChronology = <<<<MEGALITHIC>>>>
  /\ Len(mappedLabels) = 3
  /\ UNKNOWN \in Range(mappedLabels)

\* C14: two derivations with the same normalized name, the same normalized
\* district and the same salt give the same identifier, whatever was derived
\* before or between them.
C14_SameInputsSameId ==
  \A i, j \in 1..Len(derivations) :
    (/\ normalize(derivations[i].name) = normalize(derivations[j].name)
     /\ normalize(derivations[i].district) = normalize(derivations[j].district)
     /\ derivations[i].now = derivations[j].now)
      => derivations[i].id = derivations[j].id

\* the same salt with two spellings of one name, another derivation between
C14_Witness ==
  /\ Len(derivations) = 3
  /\ derivations[1].name # derivations[3].name
  /\ derivations[1].now = derivations[3].now
  /\ derivations[2].now # derivations[1].now
  /\ derivations[1].id = derivations[3].id
  /\ derivations[2].id # derivations[1].id

\* C15: while the graph view is given an empty site list, the graph has no
\* nodes and no links and its simulation is not scheduled (it makes no tick).
C15_EmptySiteList ==
  (mounted /\ gSites = <<>>) =>
    /\ nodes = <<>>
    /\ linkData = <<>>
    /\ ~running

\* C16: every build of the graph is made from the complete edge set of the
\* site list it is made for: the links handed to the graph view hold the
\* scores of all pairs of the current sites, computed from the current sites.
C16_EdgesBeforeGraph ==
  [][(Commit /\ rendersGraph /\ graphEffectDue) =>
       gLinks' = computeResults(sites)]_vars

\* the steps that settle a scheduled render are the Commit steps
CommitSettles == [][Committed <=> Commit]_vars

\* the similarity data holds, for every pair of distinct sites of the current
\* list, the score of the current records of the two sites, and nothing else
Fresh ==
  /\ Complete
  /\ \A i \in 1..Len(sites) : \A j \in (i + 1)..Len(sites) :
       similarityData[PairPos(Len(sites), i, j)].score
         = calculateSim(sites[i], sites[j])

\* C17: after any add or update of a site the edge set is eventually
\* recomputed in full from the current site list: whenever the similarity
\* data differs from the scores of the current records, a state follows in
\* which every pair of the current list is stored with the score of its
\* current records (no score computed before the edit is left).
C17_EventuallyRecomputed == (~Fresh) ~> (~sitesDirty /\ Fresh)

C17_Witness ==
  /\ nAdds > 0 /\ nUpdates > 0
  /\ ~sitesDirty /\ Fresh
  /\ Len(sites) > Len(TN_SITES)
  /\ \E i \in 1..Len(TN_SITES) : \E j \in (i + 1)..Len(TN_SITES) :
       ~RatEq(calculateSim(sites[i], sites[j]),
              calculateSim(TN_SITES[i], TN_SITES[j]))

\* C18 as stated: a drag start pins the node at the pointer location, resets
\* alpha to its starting value and leaves the simulation running.
C18_Original ==
  [][\A ptr \in Pointers, k \in 1..MaxNodes :
       DragStart(ptr, k) =>
         /\ nodes'[k].pin = <<nodes[k].pos>>
         /\ alpha' = AlphaInit
         /\ running']_vars

\* C18, amended: a drag start pins the node at the pointer location (the
\* node's current position) and leaves alpha as it is; when no other gesture
\* is active on the graph it sets alphaTarget to 0.3 and restarts the timer,
\* so that the simulation is running afterwards even if it was Converged
\* before; with another gesture active on a running graph it stays running.
C18_DragStartReheats ==
  [][\A ptr \in Pointers, k \in 1..MaxNodes :
       DragStart(ptr, k) =>
         /\ nodes'[k].pin = <<nodes[k].pos>>
         /\ alpha' = alpha
         /\ active(gestures) = 0 => alphaTarget' = DragTarget /\ running'
         /\ active(gestures) > 0 /\ live => running']_vars

C18_Witness ==
  /\ live /\ running
  /\ alpha < AlphaMin
  /\ alphaTarget = DragTarget
  /\ \E g \in gestures :
       ~g.stale /\ nodes[g.node].pin = <<nodes[g.node].pos>>

\* the values alpha takes while a simulation cools down from a, undisturbed
RECURSIVE coolingFrom(_)
coolingFrom(a) ==
  IF a < AlphaMin THEN {a} ELSE {a} \cup coolingFrom(alphaStep(a, 0))

\* the k-th node of the displayed graph is held by a gesture
Held(k) == \E g \in gestures : ~g.stale /\ g.node = k

\* C19: a drag end leaves the dragged node without pinned position, a node
\* is pinned only while a gesture begun on it has not ended, and when from
\* some point on no gesture is active and only ticks happen (no further drag,
\* no structural change), the simulation ends up Converged, no node pinned.
C19_DragEndReleases ==
  /\ [][\A ptr \in Pointers :
          DragEnd(ptr) =>
            \A g \in gestures :
              (g.ptr = ptr /\ ~g.stale) => nodes'[g.node].pin = <<>>]_vars
  /\ [](\A k \in 1..Len(nodes) : nodes[k].pin # <<>> => Held(k))
  /\ (<>[][Tick]_vars /\ <>[](gestures = {})) =>
       <>[](live => (Converged /\ \A k \in 1..Len(nodes) : nodes[k].pin = <<>>))

\* a drag has ended and the simulation cools down from the drag target, on
\* values a fresh simulation does not take
C19_Witness ==
  /\ live /\ running
  /\ gestures = {}
  /\ alphaTarget = 0
  /\ alpha \notin coolingFrom(AlphaInit)
  /\ \A k \in 1..Len(nodes) : nodes[k].pin = <<>>
  /\ \E k \in 1..Len(nodes) : nodes[k].pos # 0

\* a build of the graph, whatever its props
AnyBuild == \E s \in SiteLists, l \in LinkLists(MaxLinks) : Build(s, l)

\* C20 as stated: alpha lies in [0, 1], every tick decreases alpha, also
\* while a drag gesture is active, and alpha rises only at a drag start or at
\* a structural change.
C20_Original ==
  /\ [](alpha \in 0..AlphaScale)
  /\ [][Tick => alpha' < alpha]_vars
  /\ [][alpha' > alpha =>
          \/ \E ptr \in Pointers, k \in 1..MaxNodes : DragStart(ptr, k)
          \/ AnyBuild]_vars

\* C20, amended: alpha lies in [0, 1]; a tick moves alpha toward alphaTarget
\* without passing it: it decreases alpha when alpha is above the target (0,
\* or 0.3 while a drag gesture is active) and does not decrease it otherwise;
\* alpha rises only in a tick made while alphaTarget is 0.3 and alpha is
\* below it, or at a build, which starts a new simulation with alpha 1 (a
\* drag start leaves alpha as it is).
C20_AlphaTowardTarget ==
  /\ [](alpha \in 0..AlphaScale)
  /\ [][Tick => IF alpha > alphaTarget
                THEN alphaTarget <= alpha' /\ alpha' < alpha
                ELSE alpha <= alpha' /\ alpha' <= alphaTarget]_vars
  /\ [][alpha' > alpha =>
          \/ Tick /\ alphaTarget = DragTarget /\ alpha < DragTarget
          \/ AnyBuild /\ alpha' = AlphaInit]_vars
  /\ [][\A ptr \in Pointers, k \in 1..MaxNodes :
          DragStart(ptr, k) => alpha' = alpha]_vars

\* alpha raised by ticks during a drag of a simulation that had cooled down
C20_Witness ==
  /\ live /\ running
  /\ gestures # {} /\ \A g \in gestures : ~g.stale
  /\ alphaTarget = DragTarget
  /\ 0 < alpha /\ alpha < DragTarget
  /\ alpha \notin coolingFrom(AlphaInit)

\* a drag event of any pointer
DragEvent ==
  \/ \E ptr \in Pointers, k \in 1..MaxNodes : DragStart(ptr, k)
  \/ \E ptr \in Pointers, p \in Points : DragMove(ptr, p)
  \/ \E ptr \in Pointers : DragEnd(ptr)

\* the position or the velocity of a node of the displayed node set changes
Moved ==
  /\ Len(nodes') = Len(nodes)
  /\ \E k \in 1..Len(nodes) :
       nodes'[k].pos # nodes[k].pos \/ nodes'[k].vel # nodes[k].vel

\* C21: a drag start, move or end changes, among the nodes, at most the
\* pinned position of one node (the dragged one): every position, every
\* velocity and every other pin is left as it is, as are the node and link
\* sets; and apart from a build, which makes new nodes, the position or
\* velocity of a node changes only in a tick.
C21_DragWritesPinOnly ==
  /\ [][DragEvent =>
          /\ Len(nodes') = Len(nodes)
          /\ linkData' = linkData
          /\ \A k \in 1..Len(nodes) :
               /\ nodes'[k].pos = nodes[k].pos
               /\ nodes'[k].vel = nodes[k].vel
               /\ nodes'[k].id = nodes[k].id
          /\ \A j, k \in 1..Len(nodes) :
               (nodes'[j].pin # nodes[j].pin /\ nodes'[k].pin # nodes[k].pin)
                 => j = k
          /\ \A k \in 1..Len(nodes) :
               nodes'[k].pin # nodes[k].pin =>
                 \E g \in gestures \cup gestures' : ~g.stale /\ g.node = k]_vars
  /\ [][Moved => Tick \/ AnyBuild]_vars

\* a node dragged away from where it is, next to a node left alone
C21_Witness ==
  /\ live /\ Len(nodes) = 2
  /\ \E g \in gestures :
       /\ ~g.stale
       /\ nodes[g.node].pin # <<>>
       /\ nodes[g.node].pin # <<nodes[g.node].pos>>
       /\ \E k \in 1..Len(nodes) : k # g.node /\ nodes[k].pin = <<>> /\ nodes[k].pos # 0

\* (w * 31 + c) mod 2^32, by multiplication of the two 16-bit halves
mulAdd31(w, c) ==
  LET lo == w[2] * 31 + c
  IN << (w[1] * 31 + lo \div Half) % Half, lo % Half >>

\* hash * 31 + charCode over the first n characters, wrapped to 32 bits
\* after each character
RECURSIVE wrappedSum(_, _)
wrappedSum(str, n) ==
  IF n = 0 THEN <<0, 0>>
  ELSE LET before == wrappedSum(str, n - 1)
       IN IF before[1] \in 0..(Half - 1) THEN mulAdd31(before, str[n]) ELSE before

\* the absolute value of the signed 32-bit integer of bit pattern w
magnitude(w) ==
  IF w[1] < 32768 THEN w
  ELSE IF w[2] = 0 THEN << Half - w[1], 0 >>
       ELSE << Half - 1 - w[1], Half - w[2] >>

IsDigit36(c) == c \in 48..57 \/ c \in 97..122

digitValue(c) == IF c \in 48..57 THEN c - 48 ELSE c - 97 + 10

\* the number a base-36 numeral denotes (high part not reduced)
RECURSIVE parse36(_, _)
parse36(text, n) ==
  IF n = 0 THEN <<0, 0>>
  ELSE LET before == parse36(text, n - 1)
           lo == before[2] * 36 + digitValue(text[n])
       IN IF before[1] >= 0 THEN << before[1] * 36 + lo \div Half, lo % Half >>
          ELSE before

\* C22: for every input string the accumulator is hash * 31 + charCode
\* wrapped to a signed 32-bit integer after each character, and the result is
\* the base-36 numeral, without sign, of the absolute value of the
\* accumulator, a number in 0..2^31 (2^31 when the accumulator is -2^31).
C22_UnsignedBase36 ==
  hashOutput # <<>> =>
    LET hash == hashOutput[1].hash
        text == hashOutput[1].text
    IN /\ hash = wrappedSum(hashInput, Len(hashInput))
       /\ Len(text) > 0
       /\ \A i \in 1..Len(text) : IsDigit36(text[i])
       /\ Len(text) > 1 => text[1] # 48
       /\ parse36(text, Len(text)) = magnitude(hash)
       /\ magnitude(hash)[1] < 32768 \/ magnitude(hash) = <<32768, 0>>

\* the accumulator ends at -2^31 and the result is "zik0zk"
C22_Witness ==
  /\ hashInput = WordPolygene
  /\ hashOutput # <<>>
  /\ hashOutput[1].hash = <<32768, 0>>
  /\ hashOutput[1].text = <<122, 105, 107, 48, 122, 107>>

\* the requests awaiting their answer for a target
InFlight(target) == {r \in requests : r.target = target}

\* a click that issues a request for the target
Issues(target) == ClickCompute(target) /\ requests' # requests

\* C23: for each target at most one explanation request awaits its answer,
\* and no request is issued for a target whose explanation the view holds.
C23_OneRequestPerTarget ==
  /\ [](\A target \in DetailIds \cup {IngestedId} :
          Cardinality(InFlight(target)) <= 1)
  /\ [][\A target \in DetailIds \cup {IngestedId} :
          Issues(target) => similarityInsights[target] = <<>>]_vars

\* the explanation panel of a target shows an explanation
ShowsExplanation(target) ==
  /\ shown # <<>>
  /\ target \in shown[1].targets
  /\ ~shown[1].error[target]
  /\ shown[1].insights[target] # <<>>

\* C24: an explanation the overlay shows for a target was generated for the
\* site the overlay displays, in its current revision, and for that target.
C24_ExplanationOfShownSite ==
  \A target \in DetailIds \cup {IngestedId} :
    ShowsExplanation(target) =>
      /\ shown[1].insights[target][1].site = shown[1].site
      /\ shown[1].insights[target][1].target = target

\* C25: while a request for a target awaits its answer in the mounted
\* overlay, loadingSimilarity is that target, so that its button is disabled.
C25_LoadingWhileInFlight ==
  \A r \in requests : ~r.dead => loadingSimilarity = <<r.target>>

\* a run of processReport starts
RunStarts == Cardinality(runs') > Cardinality(runs)

\* C26: at most one run of processReport is in progress, and no run starts
\* while isIngesting is true, whichever way the file comes in.
C26_OneIngestion ==
  /\ [](Cardinality(runs) <= 1)
  /\ [][RunStarts => ~isIngesting]_vars

\* the run r ends in this step
RunEnds(r) == r \in runs /\ \A q \in runs' : q.run # r.run

\* C27: every run of processReport ends with isIngesting false and the step
\* text cleared; a run that fails adds no site and leaves an error message,
\* a run that succeeds adds exactly one site and sets no error; and the site
\* list changes in no other step.
C27_RunOutcome ==
  /\ [][\A r \in runs :
          RunEnds(r) =>
            /\ ~isIngesting' /\ ingestionStep' = ""
            /\ IF r.at = "finalizing"
               THEN sites' = Append(sites, r.newSite[1]) /\ error' = error
               ELSE sites' = sites /\ error' # <<>>]_vars
  /\ [][sites' # sites => \E r \in runs : RunEnds(r)]_vars

\* C28: with gestures overlapping on the displayed graph, alphaTarget is 0.3
\* exactly while a gesture is active: a drag start changes alphaTarget and
\* restarts the timer exactly when no other gesture is active, a drag end
\* returns alphaTarget to 0 exactly when it ends the last gesture, and the
\* simulation of the displayed graph is running, hence not Converged, while
\* a gesture is active.
C28_OverlappingGestures ==
  /\ [](hasSim => (alphaTarget = DragTarget <=> active(gestures) > 0))
  /\ []((live /\ active(gestures) > 0) => running /\ ~Converged)
  /\ [][\A ptr \in Touches, k \in 1..MaxNodes :
          DragStart(ptr, k) =>
            IF active(gestures) = 0
            THEN alphaTarget = 0 /\ alphaTarget' = DragTarget /\ running'
            ELSE alphaTarget' = alphaTarget /\ running' = running]_vars
  /\ [][\A ptr \in Touches :
          (DragEnd(ptr) /\ active(gestures') < active(gestures)) =>
            IF active(gestures') = 0
            THEN alphaTarget' = 0
            ELSE alphaTarget' = DragTarget]_vars

\* two gestures at once, then the first has ended and the other holds the
\* simulation above alphaMin although it had cooled down
C28_Witness ==
  /\ live /\ running
  /\ active(gestures) = 1
  /\ \E g \in gestures : ~g.stale /\ g.ptr = 2
  /\ alphaTarget = DragTarget
  /\ alpha \notin coolingFrom(AlphaInit)
  /\ \E k \in 1..Len(nodes) : nodes[k].pin = <<>> /\ nodes[k].pos # 0

\* the score computed inside topSimilarSites for the displayed site and a
\* candidate s
candidateScore(site, s) ==
  LET materialsA == materialsOf(site)
      materialsB == materialsOf(s)
      intersection == NewSet(SelectSeq(materialsA, LAMBDA x : has(materialsB, x)))
      union == NewSet(materialsA \o materialsB)
  IN IF Len(union) = 0 THEN <<0, 1>> ELSE <<Len(intersection), Len(union)>>

\* p < q for two quotients of small integers
scoreLess(p, q) == p[1] * q[2] < q[1] * p[2]

\* .sort((a, b) => b.score - a.score): stable, highest score first
RECURSIVE sortByScore(_)
sortByScore(list) ==
  IF list = <<>> THEN <<>>
  ELSE LET sorted == sortByScore(SubSeq(list, 1, Len(list) - 1))
           x == list[Len(list)]
           k == Cardinality({i \in 1..Len(sorted) :
                               ~scoreLess(sorted[i].score, x.score)})
       IN SubSeq(sorted, 1, k) \o <<x>> \o SubSeq(sorted, k + 1, Len(sorted))

\* .slice(0, 3)
slice3(list) == SubSeq(list, 1, IF Len(list) < 3 THEN Len(list) ELSE 3)

\* topSimilarSites without the slice
topSimilarSites_NoSlice(site, all) ==
  LET others == SelectSeq(all, LAMBDA s : s.id # site.id)
      scored == [i \in 1..Len(others) |->
                   [site |-> others[i], score |-> candidateScore(site, others[i])]]
  IN sortByScore(scored)

topSimilarSites(site, all) ==
  LET others == SelectSeq(all, LAMBDA s : s.id # site.id)
      scored == [i \in 1..Len(others) |->
                   [site |-> others[i], score |-> candidateScore(site, others[i])]]
  IN slice3(sortByScore(scored))

\* the ranked list of the site details on display
ranked == topSimilarSites(selectedSite[1], sites)

\* C29: while the site details are displayed, every entry of the ranked list
\* carries the score calculateSim gives for the displayed site and the
\* entry's site, the list does not contain the displayed site, has at most
\* three entries, all of them in the site list, and its scores do not
\* increase along the list.
C29_RankedCandidates ==
  selectedSite # <<>> =>
    LET list == ranked
    IN /\ Len(list) <= 3
       /\ \A i \in 1..Len(list) :
            /\ list[i].score = calculateSim(selectedSite[1], list[i].site)
            /\ list[i].site.id # selectedSite[1].id
            /\ list[i].site # selectedSite[1]
            /\ has(sites, list[i].site)
       /\ \A i \in 1..(Len(list) - 1) :
            ~scoreLess(list[i].score, list[i + 1].score)

\* more than three candidates, the list holds three of them in an order
\* other than that of the site list, and a candidate with a score is cut
C29_Witness ==
  /\ selectedSite # <<>>
  /\ Len(SelectSeq(sites, LAMBDA s : s.id # selectedSite[1].id)) > 3
  /\ Len(ranked) = 3
  /\ scoreLess(ranked[3].score, ranked[1].score)
  /\ \E i, j \in 1..Len(sites) :
       /\ i < j
       /\ sites[j] = ranked[1].site
       /\ sites[i] = ranked[2].site
  /\ \E i \in 1..Len(sites) :
       /\ sites[i].id # selectedSite[1].id
       /\ \A k \in 1..3 : ranked[k].site # sites[i]
       /\ scoreLess(<<0, 1>>, candidateScore(selectedSite[1], sites[i]))

\* C30: an update replaces exactly the entries of the site list whose id is
\* the updated site's id: the list keeps its length and the order of its
\* ids, every entry with that id becomes the updated site, every other
\* entry is unchanged, and the list is unchanged when no entry has that id.
C30_UpdateReplacesById ==
  [][\A updatedSite \in UpdatePool :
       UpdateSite(updatedSite) =>
         /\ Len(sites') = Len(sites)
         /\ idsOf(sites') = idsOf(sites)
         /\ \A i \in 1..Len(sites) :
              /\ sites[i].id = updatedSite.id => sites'[i] = updatedSite
              /\ sites[i].id # updatedSite.id => sites'[i] = sites[i]
         /\ (\A i \in 1..Len(sites) : sites[i].id # updatedSite.id)
              => sites' = sites]_vars

\* after an update: a list with two entries of the updated id, both holding
\* the updated site, around an entry of another id
C30_Witness ==
  /\ nUpdates = 1
  /\ Len(sites) = 3
  /\ selectedSite # <<>>
  /\ sites[1] = selectedSite[1]
  /\ sites[3] = selectedSite[1]
  /\ sites[2].id # selectedSite[1].id
  /\ selectedSite[1].artifacts # <<>>

====
